---------------------------- MODULE Spec2Model ----------------------------
(***************************************************************************)
(* Flash-algorithm execution engine of probe-rs (src/probe/src/flash/      *)
(* flasher.rs): the Inactive / Active<Op> flasher, the register frame that *)
(* call_function marshals, and the wait-for-halt protocol.  The debug      *)
(* transport is an external collaborator: the model records every call     *)
(* the flasher makes on it (trace), which is what a mock transport sees.   *)
(***************************************************************************)
EXTENDS Integers, Sequences, FiniteSets, TLC

(* ---------------------------- bounds ---------------------------------- *)
\* wait_for_core_halted may fail this many times within one invocation
MaxWaitErrs == 2
\* bytes passed to the program primitives hold 0, 4, .., 4*MaxWords bytes
MaxWords == 3
\* page_buffers lists at most this many buffers; buffer numbers range 0..MaxBuffers
MaxBuffers == 2

(* ---------------------- Option<u32> as a sequence --------------------- *)
None == << >>
Some(v) == << v >>

(* ------------------- values the inputs are drawn from ----------------- *)
\* flash addresses handed to erase_sector / program_* (0x0800_1000, 0x0800_1004)
FlashAddrs == {134221824, 134221828}
\* the optional address and clock of init
InitAddrs == {None, Some(134217728)}
InitClocks == {None, Some(48000000)}
\* status codes the algorithm leaves in R0 (0 = success; 0xDEAD)
Statuses == {0, 1, 57005}
\* region.page_size of the regions handed to init
PageSizes == {4, 16}
\* a buffer of len bytes, each 0xAA
Bytes(len) == [i \in 1..len |-> 170]
ByteArgs == {Bytes(4 * k) : k \in 0..MaxWords}
BufferNumbers == 0..MaxBuffers

\* base address of page buffer i (0-based), 0x2000_4000 + 0x100 * i
BufferBase(i) == 536887296 + 256 * i

\* The algorithm descriptors explored: optional entry points present or
\* absent, an even and an odd load address, 0..MaxBuffers page buffers,
\* min_program_length unset or 8.
FlashAlgorithm ==
    { [ load_address       |-> la,
        instructions       |-> << 48640, 18288 >>,
        pc_init            |-> pi,
        pc_uninit          |-> pu,
        pc_program_page    |-> 536871232,
        pc_erase_sector    |-> 536871200,
        pc_erase_all       |-> pe,
        static_base        |-> 536875008,
        begin_stack        |-> 536879104,
        begin_data         |-> 536883200,
        page_buffers       |-> [i \in 1..nb |-> BufferBase(i - 1)],
        min_program_length |-> ml ] :
      la \in {536870912, 536870913},
      pi \in {None, Some(536871040)},
      pu \in {None, Some(536871072)},
      pe \in {None, Some(536871168)},
      nb \in 0..MaxBuffers,
      ml \in {None, Some(8)} }

Operations == {"Erase", "Program", "Verify"}
\* no ActiveFlasher has been built yet
NoRegion == [page_size |-> 0]

VARIABLES
    algo,     \* session.target.info.flash_algorithm
    flasher,  \* the handle the last init / uninit left the caller with:
              \* "Inactive" or the Op of an ActiveFlasher<Op>
    region,   \* ActiveFlasher.region (its page_size)
    pc,       \* "idle", "wait" (inside wait_for_completion) or "panicked"
    call,     \* the public call in progress or last made, with its arguments
    trace,    \* transport calls made by that call, in order
    result,   \* what the call returned
    written   \* R9 and SP as the host last wrote them since the instructions
              \* were staged (None: not written since)

\* The supervision loop (src/probe-rs/src/bin/probe-rs/cmd/run.rs, run_loop).
VARIABLES
    rpc,           \* where run_loop stands ("off": it is not running)
    always_print_stacktrace,  \* run_loop's argument
    rtta,          \* TRUE: attach_to_rtt gave Some(target), FALSE: None
    exit,          \* the AtomicBool the SIGINT handler raises
    handler,       \* what a SIGINT does now: "os_default", "flag" (sets
                   \* exit), "none" (unregistered) or "conditional_default"
    core,          \* the target core: "Running" or "Halted"
    payloads,      \* the data of each channel in this iteration's RTT poll,
                   \* all of it written to stdout
    had_rtt_data,  \* poll_rtt's result in this iteration
    core_status,   \* core.status() as poll_stacktrace last read it
    slept,         \* milliseconds of the last sleep (0: none yet)
    manually_halted,  \* the local of that name
    log,           \* what run_loop did since it last read the loop condition
    halt_calls,    \* << timeout in s >> of every core.halt() call
    stacktraces,   \* calls of print_stacktrace
    ret,           \* run_loop's return: "none" yet, "false", "true", "Err"
    terminated     \* the default action of SIGINT has ended the process

fvars == << algo, flasher, region, pc, call, trace, result, written >>
rvars == << rpc, always_print_stacktrace, rtta, exit, handler, core, payloads,
            had_rtt_data, core_status, slept, manually_halted, log, halt_calls,
            stacktraces, ret, terminated >>
vars == << fvars, rvars >>

(* -------------------------- transport calls --------------------------- *)
TCall(op, reg, addr, val, data, ok) ==
    [op |-> op, reg |-> reg, addr |-> addr, val |-> val, data |-> data, ok |-> ok]
WriteBlock32(addr, data) == TCall("write_block32", "", addr, 0, data, TRUE)
WriteBlock8(addr, data) == TCall("write_block8", "", addr, 0, data, TRUE)
WriteCoreReg(reg, val) == TCall("write_core_reg", reg, 0, val, << >>, TRUE)
RunCore == TCall("run", "", 0, 0, << >>, TRUE)
WaitForCoreHalted(ok) == TCall("wait_for_core_halted", "", 0, 0, << >>, ok)
ReadCoreReg(reg, val) == TCall("read_core_reg", reg, 0, val, << >>, TRUE)

(* ------------------------------ results ------------------------------- *)
Res(tag, a, b) == [tag |-> tag, a |-> a, b |-> b]
Ok == Res("Ok", 0, 0)
Pending == Res("Pending", 0, 0)
Panic == Res("Panic", 0, 0)

Call(name, op, address, clock, bytes, n) ==
    [name |-> name, op |-> op, address |-> address, clock |-> clock,
     bytes |-> bytes, buffer_number |-> n]
NoCall == Call("none", "", None, None, << >>, 0)

(* --------------------- Operation::operation() ------------------------- *)
\* Faulty variant: the codes of Program and Verify exchanged.
operation_swapped(O) ==
    CASE O = "Erase" -> 1
      [] O = "Program" -> 3
      [] O = "Verify" -> 2

operation(O) ==
    CASE O = "Erase" -> 1
      [] O = "Program" -> 2
      [] O = "Verify" -> 3

(* ------------------- ActiveFlasher::call_function --------------------- *)
\* Faulty variant: R9 and SP are written whatever the init flag says.
RegisterTable_ungated(pcv, r0, r1, r2, r3, init_) ==
    << << "PC", Some(pcv) >>,
       << "R0", r0 >>,
       << "R1", r1 >>,
       << "R2", r2 >>,
       << "R3", r3 >>,
       << "R9", Some(algo.static_base) >>,
       << "SP", Some(algo.begin_stack) >>,
       << "LR", Some(algo.load_address + 1) >> >>

\* The (register, Option<value>) table of call_function, in its order.
RegisterTable(pcv, r0, r1, r2, r3, init_) ==
    << << "PC", Some(pcv) >>,
       << "R0", r0 >>,
       << "R1", r1 >>,
       << "R2", r2 >>,
       << "R3", r3 >>,
       << "R9", IF init_ THEN Some(algo.static_base) ELSE None >>,
       << "SP", IF init_ THEN Some(algo.begin_stack) ELSE None >>,
       << "LR", Some(algo.load_address + 1) >> >>

\* Faulty variant: the core is resumed before the frame is written.
call_function_run_first(pcv, r0, r1, r2, r3, init_) ==
    LET table == RegisterTable(pcv, r0, r1, r2, r3, init_)
        given == SelectSeq(table, LAMBDA e : e[2] # None)
    IN  << RunCore >>
        \o [i \in 1..Len(given) |-> WriteCoreReg(given[i][1], given[i][2][1])]

\* for_each over the table: write_core_reg for every Some(v), then run().
call_function(pcv, r0, r1, r2, r3, init_) ==
    LET table == RegisterTable(pcv, r0, r1, r2, r3, init_)
        given == SelectSeq(table, LAMBDA e : e[2] # None)
    IN  [i \in 1..Len(given) |-> WriteCoreReg(given[i][1], given[i][2][1])]
        \o << RunCore >>

(* ---------------- what each public call puts on the wire -------------- *)
\* init: stage the instructions, then call pc_init when there is one.
init_calls(O, address, clock) ==
    << WriteBlock32(algo.load_address, algo.instructions) >>
    \o (IF algo.pc_init # None
        THEN call_function(algo.pc_init[1], address, clock, Some(operation(O)),
                           None, TRUE)
        ELSE << >>)

uninit_calls(O) ==
    IF algo.pc_uninit # None
    THEN call_function(algo.pc_uninit[1], Some(operation(O)), None, None, None, FALSE)
    ELSE << >>

\* Faulty variant: erase_all passes an argument in R0.
erase_all_calls_with_r0 ==
    IF algo.pc_erase_all # None
    THEN call_function(algo.pc_erase_all[1], Some(0), None, None, None, FALSE)
    ELSE << >>

\* erase_all: call pc_erase_all, when there is one, with no argument.
erase_all_calls ==
    IF algo.pc_erase_all # None
    THEN call_function(algo.pc_erase_all[1], None, None, None, None, FALSE)
    ELSE << >>

erase_sector_calls(address) ==
    call_function(algo.pc_erase_sector, Some(address), None, None, None, FALSE)

\* Faulty variant: the bytes are transferred after the frame is installed
\* and the core is running.
program_page_calls_late(address, bytes) ==
    call_function(algo.pc_program_page, Some(address), Some(Len(bytes)),
                  Some(algo.begin_data), None, FALSE)
    \o << WriteBlock8(algo.begin_data, bytes) >>

\* program_page: transfer the bytes to RAM, then call pc_program_page.
program_page_calls(address, bytes) ==
    << WriteBlock8(algo.begin_data, bytes) >>
    \o call_function(algo.pc_program_page, Some(address), Some(Len(bytes)),
                     Some(algo.begin_data), None, FALSE)

\* program_phrase, once both checks passed: the same transfer and call.
program_phrase_calls(address, bytes) ==
    << WriteBlock8(algo.begin_data, bytes) >>
    \o call_function(algo.pc_program_page, Some(address), Some(Len(bytes)),
                     Some(algo.begin_data), None, FALSE)

\* "Check the buffer number." as the source writes it.
buffer_number_rejected(buffer_number) ==
    buffer_number < Len(algo.page_buffers)

\* algo.page_buffers[buffer_number as usize] panics when out of bounds.
buffer_index_in_bounds(buffer_number) ==
    buffer_number < Len(algo.page_buffers)

\* Faulty variant: min_program_length is ignored.
min_len_page_only(page_size) == page_size

\* program_phrase: the minimum programming length.
min_len(page_size) ==
    IF algo.min_program_length # None
    THEN algo.min_program_length[1]
    ELSE page_size

\* program_phrase: the two alignment checks, in the source's order.
phrase_check(address, bytes, page_size) ==
    IF address % min_len(page_size) # 0 THEN Res("UnalignedFlashWriteAddress", 0, 0)
    ELSE IF Len(bytes) % min_len(page_size) # 0 THEN Res("UnalignedPhraseLength", 0, 0)
    ELSE Ok

(* ----------------- what each call returns for a status ---------------- *)
init_result(status) ==
    IF status # 0 THEN Res("Init", status, 0) ELSE Ok
\* Faulty variant: the ActiveFlasher is handed out whatever the status.
init_flasher_unchecked(O, status) == O

\* Err drops the ActiveFlasher built inside init; Ok hands it to the caller.
init_flasher(O, status) ==
    IF status # 0 THEN "Inactive" ELSE O

uninit_result(status) ==
    IF status # 0 THEN Res("Uninit", status, 0) ELSE Ok
\* Faulty variant: the InactiveFlasher is handed out whatever the status.
uninit_flasher_unchecked(O, status) == "Inactive"

\* Err returns early: no InactiveFlasher is built, the caller keeps ActiveFlasher<O>.
uninit_flasher(O, status) ==
    IF status # 0 THEN O ELSE "Inactive"

erase_all_result(status) ==
    IF status # 0 THEN Res("EraseAll", status, 0) ELSE Ok
\* Faulty variant: the error carries its two fields exchanged.
erase_sector_result_swapped(status, address) ==
    IF status # 0 THEN Res("EraseSector", address, status) ELSE Ok
erase_sector_result(status, address) ==
    IF status # 0 THEN Res("EraseSector", status, address) ELSE Ok
program_page_result(status, address) ==
    IF status # 0 THEN Res("ProgramPage", status, address) ELSE Ok
program_phrase_result(status, address) ==
    IF status # 0 THEN Res("ProgramPhrase", status, address) ELSE Ok

\* The value the call in progress returns once R0 = status has been read.
ReturnOf(c, status) ==
    CASE c.name = "init" -> init_result(status)
      [] c.name = "uninit" -> uninit_result(status)
      [] c.name = "erase_all" -> erase_all_result(status)
      [] c.name = "erase_sector" -> erase_sector_result(status, c.address[1])
      [] c.name = "program_page" -> program_page_result(status, c.address[1])
      [] c.name = "program_phrase" -> program_phrase_result(status, c.address[1])

\* The flasher the caller holds after that return.
FlasherAfter(c, status) ==
    CASE c.name = "init" -> init_flasher(c.op, status)
      [] c.name = "uninit" -> uninit_flasher(c.op, status)
      [] OTHER -> flasher

(* --------------------- which handle has which methods ----------------- *)
\* impl InactiveFlasher
IsInactive == flasher = "Inactive"
\* impl<O: Operation> ActiveFlasher<O>
IsActive == flasher \in Operations
\* Faulty variant: the erase primitives on every ActiveFlasher<O>.
IsActiveAnyOperation == flasher \in Operations
\* impl ActiveFlasher<Erase>
IsActiveErase == flasher = "Erase"
\* impl ActiveFlasher<Program>
IsActiveProgram == flasher = "Program"

(* ------------------------------ state --------------------------------- *)
\* R9 and SP after the transport calls `calls`: write_block32 stages the
\* instructions afresh, write_core_reg installs a value.
Installed(w, calls) ==
    LET staged == {i \in 1..Len(calls) : calls[i].op = "write_block32"}
        since == IF staged = {} THEN 0
                 ELSE CHOOSE i \in staged : \A j \in staged : j <= i
        writes(r) == {i \in (since + 1)..Len(calls) :
                        calls[i].op = "write_core_reg" /\ calls[i].reg = r}
        last(r) == CHOOSE i \in writes(r) : \A j \in writes(r) : j <= i
    IN  [r \in {"R9", "SP"} |->
            IF writes(r) # {} THEN Some(calls[last(r)].val)
            ELSE IF staged # {} THEN None
            ELSE w[r]]

\* run_loop has not been entered.
RunOff ==
    /\ rpc = "off"
    /\ always_print_stacktrace = FALSE
    /\ rtta = FALSE
    /\ exit = FALSE
    /\ handler = "os_default"
    /\ core = "Running"
    /\ payloads = << >>
    /\ had_rtt_data = FALSE
    /\ core_status = "Running"
    /\ slept = 0
    /\ manually_halted = FALSE
    /\ log = << >>
    /\ halt_calls = << >>
    /\ stacktraces = 0
    /\ ret = "none"
    /\ terminated = FALSE

Init ==
    /\ RunOff
    /\ algo \in FlashAlgorithm
    /\ flasher = "Inactive"
    /\ region = NoRegion
    /\ pc = "idle"
    /\ call = NoCall
    /\ trace = << >>
    /\ result = Pending
    /\ written = [r \in {"R9", "SP"} |-> None]

\* A call that ends in call_function_and_wait: the frame is on the wire and
\* the host enters wait_for_completion.
Invoke(c, calls) ==
    /\ call' = c
    /\ trace' = calls
    /\ result' = Pending
    /\ written' = Installed(written, calls)
    /\ pc' = "wait"

\* A call that returns r without waiting.
Return(c, calls, r, f) ==
    /\ call' = c
    /\ trace' = calls
    /\ result' = r
    /\ flasher' = f
    /\ written' = Installed(written, calls)
    /\ pc' = IF r = Panic THEN "panicked" ELSE "idle"

init(O, rgn, address, clock) ==
    /\ pc = "idle"
    /\ UNCHANGED rvars
    /\ IsInactive
    /\ region' = rgn
    /\ LET c == Call("init", O, address, clock, << >>, 0)
       IN  IF algo.pc_init # None
           THEN Invoke(c, init_calls(O, address, clock)) /\ UNCHANGED flasher
           ELSE Return(c, init_calls(O, address, clock), Ok, O)
    /\ UNCHANGED algo

uninit ==
    /\ pc = "idle"
    /\ UNCHANGED rvars
    /\ IsActive
    /\ LET c == Call("uninit", flasher, None, None, << >>, 0)
       IN  IF algo.pc_uninit # None
           THEN Invoke(c, uninit_calls(flasher)) /\ UNCHANGED flasher
           ELSE Return(c, uninit_calls(flasher), Ok, "Inactive")
    /\ UNCHANGED << algo, region >>

erase_all ==
    /\ pc = "idle"
    /\ UNCHANGED rvars
    /\ IsActiveErase
    /\ LET c == Call("erase_all", flasher, None, None, << >>, 0)
       IN  IF algo.pc_erase_all # None
           THEN Invoke(c, erase_all_calls) /\ UNCHANGED flasher
           ELSE Return(c, erase_all_calls, Res("EraseAllNotSupported", 0, 0), flasher)
    /\ UNCHANGED << algo, region >>

erase_sector(address) ==
    /\ pc = "idle"
    /\ UNCHANGED rvars
    /\ IsActiveErase
    /\ Invoke(Call("erase_sector", flasher, Some(address), None, << >>, 0),
              erase_sector_calls(address))
    /\ UNCHANGED << algo, region, flasher >>

program_page(address, bytes) ==
    /\ pc = "idle"
    /\ UNCHANGED rvars
    /\ IsActiveProgram
    /\ Invoke(Call("program_page", flasher, Some(address), None, bytes, 0),
              program_page_calls(address, bytes))
    /\ UNCHANGED << algo, region, flasher >>

start_program_page_with_buffer(address, buffer_number) ==
    /\ pc = "idle"
    /\ UNCHANGED rvars
    /\ IsActiveProgram
    /\ LET c == Call("start_program_page_with_buffer", flasher, Some(address),
                     None, << >>, buffer_number)
       IN  IF buffer_number_rejected(buffer_number)
           THEN Return(c, << >>,
                       Res("InvalidBufferNumber", buffer_number, Len(algo.page_buffers)),
                       flasher)
           ELSE IF ~ buffer_index_in_bounds(buffer_number)
           THEN Return(c, << >>, Panic, flasher)
           ELSE Return(c,
                       call_function(algo.pc_program_page, Some(address),
                                     Some(region.page_size),
                                     Some(algo.page_buffers[buffer_number + 1]),
                                     None, FALSE),
                       Ok, flasher)
    /\ UNCHANGED << algo, region >>

load_page_buffer(address, bytes, buffer_number) ==
    /\ pc = "idle"
    /\ UNCHANGED rvars
    /\ IsActiveProgram
    /\ LET c == Call("load_page_buffer", flasher, Some(address), None, bytes,
                     buffer_number)
       IN  IF buffer_number_rejected(buffer_number)
           THEN Return(c, << >>,
                       Res("InvalidBufferNumber", buffer_number, Len(algo.page_buffers)),
                       flasher)
           ELSE IF ~ buffer_index_in_bounds(buffer_number)
           THEN Return(c, << >>, Panic, flasher)
           ELSE Return(c,
                       << WriteBlock8(algo.page_buffers[buffer_number + 1], bytes) >>,
                       Ok, flasher)
    /\ UNCHANGED << algo, region >>

program_phrase(address, bytes) ==
    /\ pc = "idle"
    /\ UNCHANGED rvars
    /\ IsActiveProgram
    /\ LET c == Call("program_phrase", flasher, Some(address), None, bytes, 0)
           chk == phrase_check(address, bytes, region.page_size)
       IN  IF chk # Ok
           THEN Return(c, << >>, chk, flasher)
           ELSE Invoke(c, program_phrase_calls(address, bytes)) /\ UNCHANGED flasher
    /\ UNCHANGED << algo, region >>

(* -------------------- ActiveFlasher::wait_for_completion -------------- *)
WaitErrs == Cardinality({i \in 1..Len(trace) :
                           trace[i].op = "wait_for_core_halted" /\ ~ trace[i].ok})

\* Faulty variant: a transport error ends the wait and is surfaced.
wait_for_core_halted_err_surfaced ==
    /\ pc = "wait"
    /\ UNCHANGED rvars
    /\ WaitErrs < MaxWaitErrs
    /\ trace' = Append(trace, WaitForCoreHalted(FALSE))
    /\ result' = Res("Transport", 0, 0)
    /\ pc' = "idle"
    /\ UNCHANGED << algo, flasher, region, call, written >>

\* wait_for_core_halted returned Err: the while loop calls it again.
wait_for_core_halted_err ==
    /\ pc = "wait"
    /\ UNCHANGED rvars
    /\ WaitErrs < MaxWaitErrs
    /\ trace' = Append(trace, WaitForCoreHalted(FALSE))
    /\ UNCHANGED << algo, flasher, region, pc, call, result, written >>

\* wait_for_core_halted returned Ok: read R0 and return it to the caller of
\* call_function_and_wait, which maps it to its own result.  The transport's
\* read_core_reg yields a value (status); the algorithm may leave any.
wait_for_completion(status) ==
    /\ pc = "wait"
    /\ UNCHANGED rvars
    /\ trace' = trace \o << WaitForCoreHalted(TRUE), ReadCoreReg("R0", status) >>
    /\ result' = ReturnOf(call, status)
    /\ flasher' = FlasherAfter(call, status)
    /\ pc' = "idle"
    /\ UNCHANGED << algo, region, call, written >>

Next ==
    \/ \E O \in Operations, ps \in PageSizes, a \in InitAddrs, c \in InitClocks :
          init(O, [page_size |-> ps], a, c)
    \/ uninit
    \/ erase_all
    \/ \E a \in FlashAddrs : erase_sector(a)
    \/ \E a \in FlashAddrs, b \in ByteArgs : program_page(a, b)
    \/ \E a \in FlashAddrs, n \in BufferNumbers : start_program_page_with_buffer(a, n)
    \/ \E a \in FlashAddrs, b \in ByteArgs, n \in BufferNumbers : load_page_buffer(a, b, n)
    \/ \E a \in FlashAddrs, b \in ByteArgs : program_phrase(a, b)
    \/ wait_for_core_halted_err
    \/ \E s \in Statuses : wait_for_completion(s)

Spec == Init /\ [][Next]_vars

TypeOK ==
    /\ algo \in FlashAlgorithm
    /\ flasher \in {"Inactive"} \cup Operations
    /\ pc \in {"idle", "wait", "panicked"}

(* ===================== properties of the flasher ====================== *)
\* Values written to register reg by the transport calls t.
RegVals(t, reg) ==
    {t[i].val : i \in {j \in 1..Len(t) : t[j].op = "write_core_reg" /\ t[j].reg = reg}}
\* Registers written by the transport calls t.
RegsWritten(t) ==
    {t[i].reg : i \in {j \in 1..Len(t) : t[j].op = "write_core_reg"}}
\* Positions of the calls of kind op in t.
At(t, op) == {i \in 1..Len(t) : t[i].op = op}
\* Entry points started by t: the PC values written.
Started(t) == RegVals(t, "PC")
\* The call has returned to its caller.
Returned(name) == call.name = name /\ pc = "idle"
\* The status the algorithm left in R0: the last read_core_reg of the trace.
StatusRead == trace[Len(trace)].val
\* The numeric codes of the three operation types.
CodeOf(O) == IF O = "Erase" THEN 1 ELSE IF O = "Program" THEN 2 ELSE 3

\* C1: init<O> invokes pc_init (when there is one) with R2 = O's code (1, 2,
\* 3 for Erase, Program, Verify) and nothing else is ever written to R2
\* during init; an uninit that follows it invokes pc_uninit (when there is
\* one) with R0 = the same code and nothing else is written to R0.
C1_InitFrame ==
    call.name = "init" =>
        /\ RegVals(trace, "R2") \subseteq {CodeOf(call.op)}
        /\ IF algo.pc_init # None
           THEN Started(trace) = {algo.pc_init[1]}
                /\ RegVals(trace, "R2") = {CodeOf(call.op)}
           ELSE At(trace, "run") = {}
C1_UninitFrame ==
    call.name = "uninit" =>
        /\ RegVals(trace, "R0") \subseteq {CodeOf(call.op)}
        /\ IF algo.pc_uninit # None
           THEN Started(trace) = {algo.pc_uninit[1]}
                /\ RegVals(trace, "R0") = {CodeOf(call.op)}
           ELSE At(trace, "run") = {}
C1_UninitAfterInit ==
    (Returned("init") /\ result = Ok /\ call'.name = "uninit") =>
        /\ call'.op = call.op
        /\ RegVals(trace', "R0") \subseteq {CodeOf(call.op)}
        /\ algo.pc_uninit # None => RegVals(trace', "R0") = {CodeOf(call.op)}
C1_OperationCode ==
    [](C1_InitFrame /\ C1_UninitFrame) /\ [][C1_UninitAfterInit]_vars
\* init<Program> ran pc_init, and the uninit after it is running pc_uninit.
C1_Witness ==
    /\ call.name = "uninit" /\ call.op = "Program" /\ pc = "wait"
    /\ algo.pc_init # None
    /\ 2 \in RegVals(trace, "R0")

\* C2: an invocation made with init=true (the one of init) writes
\* R9 = static_base, SP = begin_stack and PC = the entry point before run();
\* one made with init=false writes neither R9 nor SP, and writes of R0..R3
\* only the operands its caller gives.
OperandsGiven(name) ==
    CASE name = "uninit" -> {"R0"}
      [] name = "erase_all" -> {}
      [] name = "erase_sector" -> {"R0"}
      [] name \in {"program_page", "program_phrase",
                   "start_program_page_with_buffer"} -> {"R0", "R1", "R2"}
      [] OTHER -> {}
C2_FrameByInitFlag ==
    \A r \in At(trace, "run") :
        LET frame == SubSeq(trace, 1, r - 1)
        IN  IF call.name = "init"
            THEN /\ RegVals(frame, "R9") = {algo.static_base}
                 /\ RegVals(frame, "SP") = {algo.begin_stack}
                 /\ RegVals(frame, "PC") = {algo.pc_init[1]}
            ELSE /\ RegsWritten(trace) \cap {"R9", "SP"} = {}
                 /\ RegsWritten(trace) \cap {"R0", "R1", "R2", "R3"}
                        = OperandsGiven(call.name)
\* erase_sector has started its entry point: an init=false frame with R1..R3 omitted.
C2_Witness ==
    call.name = "erase_sector" /\ At(trace, "run") # {} /\ pc = "wait"

\* C3: program_page writes bytes to begin_data exactly once, before any
\* register write, then PC = pc_program_page, R0 = addr, R1 = len(bytes),
\* R2 = begin_data before run(); also when the algorithm reports a failure.
C3_ProgramPageFrame ==
    call.name = "program_page" =>
        /\ At(trace, "write_block8") = {1}
        /\ trace[1].addr = algo.begin_data
        /\ trace[1].data = call.bytes
        /\ \E r \in At(trace, "run") :
              LET frame == SubSeq(trace, 2, r - 1)
              IN  /\ At(trace, "write_core_reg") \subseteq 2..(r - 1)
                  /\ At(trace, "run") = {r}
                  /\ RegVals(frame, "PC") = {algo.pc_program_page}
                  /\ RegVals(frame, "R0") = {call.address[1]}
                  /\ RegVals(frame, "R1") = {Len(call.bytes)}
                  /\ RegVals(frame, "R2") = {algo.begin_data}
\* program_page of 12 bytes returned ProgramPage(0xDEAD, addr).
C3_Witness ==
    /\ Returned("program_page")
    /\ Len(call.bytes) = 12
    /\ result = Res("ProgramPage", 57005, call.address[1])

\* C4: program_phrase, with min = min_program_length if set and
\* region.page_size otherwise: an address that is no multiple of min gives
\* UnalignedFlashWriteAddress, else a length that is no multiple of min
\* gives UnalignedPhraseLength, both without any transport call; otherwise
\* it does what program_page does and a status /= 0 gives
\* ProgramPhrase(status, addr).
PhraseMin ==
    IF Len(algo.min_program_length) = 1 THEN algo.min_program_length[1]
    ELSE region.page_size
C4_ProgramPhrase ==
    call.name = "program_phrase" =>
        LET a == call.address[1]
            n == Len(call.bytes)
        IN  IF a % PhraseMin # 0
            THEN result.tag = "UnalignedFlashWriteAddress" /\ trace = << >> /\ pc = "idle"
            ELSE IF n % PhraseMin # 0
            THEN result.tag = "UnalignedPhraseLength" /\ trace = << >> /\ pc = "idle"
            ELSE /\ Len(trace) >= 6
                 /\ SubSeq(trace, 1, 6) =
                      << WriteBlock8(algo.begin_data, call.bytes),
                         WriteCoreReg("PC", algo.pc_program_page),
                         WriteCoreReg("R0", a),
                         WriteCoreReg("R1", n),
                         WriteCoreReg("R2", algo.begin_data),
                         trace[6] >>
                 /\ trace[6].op = "write_core_reg" /\ trace[6].reg = "LR"
                 /\ trace[7] = RunCore
                 /\ At(trace, "run") = {7}
                 /\ At(trace, "write_block8") = {1}
                 /\ pc = "idle" =>
                      result = IF StatusRead = 0 THEN Ok
                               ELSE Res("ProgramPhrase", StatusRead, a)
\* A phrase of 12 bytes at an aligned address with min_program_length = 8 was
\* rejected for its length.
C4_Witness ==
    /\ Returned("program_phrase")
    /\ algo.min_program_length = Some(8)
    /\ Len(call.bytes) = 12
    /\ result.tag = "UnalignedPhraseLength"

\* C5: load_page_buffer with n >= len(page_buffers) returns
\* InvalidBufferNumber(n, len(page_buffers)) and writes no memory.
C5_OutOfRangeRejected ==
    (call.name = "load_page_buffer"
        /\ call.buffer_number >= Len(algo.page_buffers)) =>
        /\ result = Res("InvalidBufferNumber", call.buffer_number, Len(algo.page_buffers))
        /\ At(trace, "write_block8") = {}

\* C6: for n < len(page_buffers), load_page_buffer succeeds and copies bytes
\* to page_buffers[n], and start_program_page_with_buffer succeeds after
\* installing PC = pc_program_page, R0 = addr, R1 = region.page_size,
\* R2 = page_buffers[n] and calling run().
C6_ValidBufferAccepted ==
    /\ (call.name = "load_page_buffer"
          /\ call.buffer_number < Len(algo.page_buffers)) =>
          /\ result = Ok
          /\ trace = << WriteBlock8(algo.page_buffers[call.buffer_number + 1],
                                    call.bytes) >>
    /\ (call.name = "start_program_page_with_buffer"
          /\ call.buffer_number < Len(algo.page_buffers)) =>
          /\ result = Ok
          /\ RegVals(trace, "PC") = {algo.pc_program_page}
          /\ RegVals(trace, "R0") = {call.address[1]}
          /\ RegVals(trace, "R1") = {region.page_size}
          /\ RegVals(trace, "R2") = {algo.page_buffers[call.buffer_number + 1]}
          /\ At(trace, "run") # {}

\* C7: the flasher is Inactive or Active<Op> for one Op; pc_erase_all and
\* pc_erase_sector are started only by an Active<Erase> flasher, and
\* pc_program_page and page-buffer writes happen only through an
\* Active<Program> flasher.
ErasePrimitives == {"erase_all", "erase_sector"}
ProgramPrimitives == {"program_page", "program_phrase", "load_page_buffer",
                      "start_program_page_with_buffer"}
EraseEntryPoints ==
    {algo.pc_erase_sector} \cup
    (IF Len(algo.pc_erase_all) = 1 THEN {algo.pc_erase_all[1]} ELSE {})
C7_GatedByOperation ==
    /\ flasher \in {"Inactive", "Erase", "Program", "Verify"}
    /\ (call.name \in ErasePrimitives \/ Started(trace) \cap EraseEntryPoints # {})
          => flasher = "Erase" /\ call.name \in ErasePrimitives
    /\ (call.name \in ProgramPrimitives
          \/ algo.pc_program_page \in Started(trace)
          \/ At(trace, "write_block8") # {})
          => flasher = "Program" /\ call.name \in ProgramPrimitives
\* An Active<Erase> flasher has started pc_erase_sector.
C7_Witness ==
    flasher = "Erase" /\ algo.pc_erase_sector \in Started(trace) /\ pc = "wait"

\* C8 as stated: after any uninit call, successful or failed, the session is
\* Inactive and a new init can be performed.
C8_AlwaysInactiveAfterUninit ==
    Returned("uninit") =>
        /\ flasher = "Inactive"
        /\ ENABLED init("Erase", [page_size |-> 4], None, None)
\* C8 amended: a status /= 0 from pc_uninit makes uninit return Uninit(status)
\* and no Inactive flasher: the flasher the caller holds is still Active<Op>.
\* After a successful uninit (pc_uninit absent or status 0) the session is
\* Inactive and a new init can be performed.
C8_UninitOutcome ==
    Returned("uninit") =>
        IF algo.pc_uninit # None /\ StatusRead # 0
        THEN /\ result = Res("Uninit", StatusRead, 0)
             /\ flasher = call.op
        ELSE /\ result = Ok
             /\ flasher = "Inactive"
             /\ ENABLED init("Erase", [page_size |-> 4], None, None)
\* uninit of an Active<Erase> flasher returned Uninit(1).
C8_Witness ==
    Returned("uninit") /\ call.op = "Erase" /\ result = Res("Uninit", 1, 0)

\* C9: init<Op> returns Active<Op> exactly when pc_init is absent or the
\* status read from R0 is 0; a status /= 0 gives Init(status), no Active
\* flasher, and the session stays Inactive.
C9_InitOutcome ==
    /\ (call.name = "init" /\ pc = "wait") => flasher = "Inactive"
    /\ Returned("init") =>
        IF algo.pc_init = None \/ StatusRead = 0
        THEN result = Ok /\ flasher = call.op
        ELSE /\ result = Res("Init", StatusRead, 0)
             /\ flasher = "Inactive"
\* init<Verify> failed with Init(0xDEAD).
C9_Witness ==
    Returned("init") /\ call.op = "Verify" /\ result = Res("Init", 57005, 0)

\* C10: the pc_init frame always holds R0 = address (0 when absent) and
\* R1 = clock (0 when absent).
C10_InitOperandsDefaultZero ==
    (call.name = "init" /\ algo.pc_init # None) =>
        /\ RegVals(trace, "R0") =
              {IF call.address = None THEN 0 ELSE call.address[1]}
        /\ RegVals(trace, "R1") =
              {IF call.clock = None THEN 0 ELSE call.clock[1]}

\* C11: erase_all without pc_erase_all returns EraseAllNotSupported and
\* makes no transport call; with pc_erase_all it writes PC = pc_erase_all
\* and LR, nothing else, and runs.
C11_EraseAll ==
    call.name = "erase_all" =>
        IF algo.pc_erase_all = None
        THEN /\ trace = << >>
             /\ result = Res("EraseAllNotSupported", 0, 0)
             /\ pc = "idle"
        ELSE /\ Len(trace) >= 3
             /\ trace[1] = WriteCoreReg("PC", algo.pc_erase_all[1])
             /\ trace[2].op = "write_core_reg" /\ trace[2].reg = "LR"
             /\ trace[3] = RunCore
             /\ At(trace, "write_core_reg") = {1, 2}
\* erase_all on an algorithm without pc_erase_all returned.
C11_Witness ==
    Returned("erase_all") /\ algo.pc_erase_all = None
        /\ result.tag = "EraseAllNotSupported"

\* C12: erase_all, erase_sector, program_page and an aligned program_phrase
\* run their entry point once and return Ok exactly when the status read
\* from R0 is 0, else EraseAll(status), EraseSector(status, addr),
\* ProgramPage(status, addr), ProgramPhrase(status, addr).
C12_StatusToResult ==
    (call.name \in {"erase_all", "erase_sector", "program_page", "program_phrase"}
        /\ trace # << >>) =>
        /\ Cardinality(At(trace, "run")) = 1
        /\ Cardinality(At(trace, "read_core_reg")) = IF pc = "idle" THEN 1 ELSE 0
        /\ pc = "wait" => result = Pending
        /\ pc = "idle" =>
              result =
                IF StatusRead = 0 THEN Ok
                ELSE IF call.name = "erase_all" THEN Res("EraseAll", StatusRead, 0)
                ELSE IF call.name = "erase_sector"
                     THEN Res("EraseSector", StatusRead, call.address[1])
                ELSE IF call.name = "program_page"
                     THEN Res("ProgramPage", StatusRead, call.address[1])
                ELSE Res("ProgramPhrase", StatusRead, call.address[1])
\* erase_sector(0x0800_1004) returned EraseSector(0xDEAD, 0x0800_1004).
C12_Witness ==
    Returned("erase_sector") /\ result = Res("EraseSector", 57005, 134221828)

\* C16: within an invocation the registers are written in the order PC, R0,
\* R1, R2, R3, R9, SP, LR, all before the single run(); every
\* wait_for_core_halted and the R0 read come after run().
Rank(reg) ==
    CASE reg = "PC" -> 1 [] reg = "R0" -> 2 [] reg = "R1" -> 3 [] reg = "R2" -> 4
      [] reg = "R3" -> 5 [] reg = "R9" -> 6 [] reg = "SP" -> 7 [] reg = "LR" -> 8
C16_InvocationOrder ==
    LET writes == At(trace, "write_core_reg")
        runs == At(trace, "run")
        after == At(trace, "wait_for_core_halted") \cup At(trace, "read_core_reg")
    IN  /\ \A i, j \in writes : i < j => Rank(trace[i].reg) < Rank(trace[j].reg)
        /\ Cardinality(runs) <= 1
        /\ writes # {} => runs # {}
        /\ after # {} => runs # {}
        /\ \A r \in runs : /\ \A i \in writes : i < r
                           /\ \A k \in after : r < k
\* init with address and clock wrote its seven registers, ran, and a
\* wait_for_core_halted has already failed once.
C16_Witness ==
    /\ call.name = "init" /\ pc = "wait"
    /\ Cardinality(At(trace, "write_core_reg")) = 7
    /\ WaitErrs >= 1

\* C17: every invocation writes LR = load_address | 1: load_address + 1 when
\* load_address is even, load_address itself when it is odd.
C17_LinkRegisterThumbBit ==
    /\ At(trace, "run") # {} => RegVals(trace, "LR") # {}
    /\ RegVals(trace, "LR") \subseteq
          {IF algo.load_address % 2 = 1 THEN algo.load_address
           ELSE algo.load_address + 1}

\* C18: wait_for_completion calls wait_for_core_halted again after every
\* error and surfaces none; it reads R0 once, right after the first call
\* that succeeds, and returns that value; it does not return while every
\* call has failed.
C18_WaitState ==
    LET waits == At(trace, "wait_for_core_halted")
        oks == {i \in waits : trace[i].ok}
        reads == At(trace, "read_core_reg")
    IN  /\ Cardinality(oks) <= 1
        /\ \A i \in oks : /\ reads = {i + 1}
                          /\ \A j \in waits : j <= i
        /\ \A r \in reads : r = Len(trace) /\ trace[r].reg = "R0" /\ r - 1 \in oks
        /\ pc = "wait" => oks = {} /\ result = Pending
        /\ (pc = "idle" /\ waits # {}) =>
              /\ oks # {}
              /\ result.tag # "Pending"
              /\ result.tag = "Ok" <=> StatusRead = 0
              /\ result.tag # "Ok" => result.a = StatusRead
C18_WaitStep ==
    /\ (pc = "wait" /\ pc' # "wait") =>
          /\ pc' = "idle"
          /\ Len(trace') = Len(trace) + 2
          /\ SubSeq(trace', 1, Len(trace)) = trace
          /\ trace'[Len(trace) + 1] = WaitForCoreHalted(TRUE)
          /\ trace'[Len(trace) + 2].op = "read_core_reg"
    /\ (pc = "wait" /\ trace' = Append(trace, WaitForCoreHalted(FALSE))) =>
          pc' = "wait" /\ result' = Pending
C18_WaitForCompletion == []C18_WaitState /\ [][C18_WaitStep]_vars
\* program_page returned after two failed wait_for_core_halted calls.
C18_Witness ==
    Returned("program_page") /\ WaitErrs = 2 /\ result.tag = "ProgramPage"

\* C20: whenever pc_uninit, pc_erase_all, pc_erase_sector or pc_program_page
\* is started, the host has written SP = begin_stack and R9 = static_base
\* since it staged the instructions.
C20_StackAndBaseInstalled ==
    (At(trace, "run") # {} /\ call.name # "init") =>
        /\ written["SP"] = Some(algo.begin_stack)
        /\ written["R9"] = Some(algo.static_base)

(* ====================================================================== *)
(* The supervision loop: run_loop of cmd/run.rs, one action per statement *)
(* that a SIGINT or a halt of the target can fall between.                *)
(* ====================================================================== *)
\* RTT up channels polled at most
MaxChannels == 2
\* std::thread::sleep(Duration::from_millis(1)) / (100)
FastPollMillis == 1
SlowPollMillis == 100
\* core.halt(Duration::from_secs(1))
HaltTimeoutSecs == 1

\* What one poll_rtt_fallible can deliver: per channel, no data or some.
Payloads == UNION {[1..n -> {"", "x"}] : n \in 0..MaxChannels}

\* Faulty variant: only the last channel decides.
had_data_last_channel(data) ==
    Len(data) > 0 /\ data[Len(data)] # ""

\* poll_rtt: had_data is set once some channel's data is not empty.
had_data(data) ==
    \E i \in 1..Len(data) : data[i] # ""

\* Faulty variant: the two intervals exchanged.
sleep_millis_exchanged(had) ==
    IF had THEN SlowPollMillis ELSE FastPollMillis

\* run_loop: 1 ms after an iteration with RTT data, 100 ms otherwise.
sleep_millis(had) ==
    IF had THEN FastPollMillis ELSE SlowPollMillis

\* Faulty variant: every status counts as halted.
is_halted_always(st) == TRUE

\* poll_stacktrace: if let CoreStatus::Halted(_) = status
is_halted(st) == st = "Halted"

\* Faulty variant: the halted path reports a user interrupt.
halted_return_true == "true"

\* run_loop: return Ok(false) when poll_stacktrace found the core halted.
halted_return == "false"

InitRun ==
    /\ algo = CHOOSE a \in FlashAlgorithm : a.page_buffers = << >>
    /\ flasher = "Inactive"
    /\ region = NoRegion
    /\ pc = "idle"
    /\ call = NoCall
    /\ trace = << >>
    /\ result = Pending
    /\ written = [r \in {"R9", "SP"} |-> None]
    /\ rpc = "attach"
    /\ always_print_stacktrace \in BOOLEAN
    /\ rtta = FALSE
    /\ exit = FALSE
    /\ handler = "os_default"
    /\ core = "Running"
    /\ payloads = << >>
    /\ had_rtt_data = FALSE
    /\ core_status = "Running"
    /\ slept = 0
    /\ manually_halted = FALSE
    /\ log = << >>
    /\ halt_calls = << >>
    /\ stacktraces = 0
    /\ ret = "none"
    /\ terminated = FALSE

\* run_loop stands at `at` and the process is alive.
RunAt(at) ==
    /\ rpc = at
    /\ ~ terminated
    /\ UNCHANGED fvars

\* let mut rtta = attach_to_rtt(..): Some(target), or None after an error.
attach_to_rtt(attached) ==
    /\ RunAt("attach")
    /\ rtta' = attached
    /\ rpc' = "register"
    /\ UNCHANGED << always_print_stacktrace, exit, handler, core, payloads,
                    had_rtt_data, core_status, slept, manually_halted, log,
                    halt_calls, stacktraces, ret, terminated >>

\* let exit = AtomicBool::new(false); signal_hook::flag::register(SIGINT, exit)
register ==
    /\ RunAt("register")
    /\ exit' = FALSE
    /\ handler' = "flag"
    /\ rpc' = "cond"
    /\ UNCHANGED << always_print_stacktrace, rtta, core, payloads,
                    had_rtt_data, core_status, slept, manually_halted, log,
                    halt_calls, stacktraces, ret, terminated >>

\* Faulty variant: the loop condition does not look at the flag.
loop_condition_blind ==
    /\ RunAt("cond")
    /\ log' = << >>
    /\ rpc' = "poll_rtt"
    /\ UNCHANGED << always_print_stacktrace, rtta, exit, handler, core,
                    payloads, had_rtt_data, core_status, slept,
                    manually_halted, halt_calls, stacktraces, ret, terminated >>

\* while !exit.load(Ordering::Relaxed)
loop_condition ==
    /\ RunAt("cond")
    /\ log' = << >>
    /\ rpc' = IF ~ exit THEN "poll_rtt" ELSE "load"
    /\ UNCHANGED << always_print_stacktrace, rtta, exit, handler, core,
                    payloads, had_rtt_data, core_status, slept,
                    manually_halted, halt_calls, stacktraces, ret, terminated >>

\* let had_rtt_data = poll_rtt(&mut rtta, core, &mut stdout)?;
poll_rtt(ok, data) ==
    /\ RunAt("poll_rtt")
    /\ IF ~ rtta
       THEN /\ payloads' = << >>
            /\ had_rtt_data' = FALSE
            /\ log' = Append(log, "rtt")
            /\ rpc' = "poll_stacktrace"
            /\ UNCHANGED ret
       ELSE IF ok
       THEN /\ payloads' = data
            /\ had_rtt_data' = had_data(data)
            /\ log' = Append(log, "rtt")
            /\ rpc' = "poll_stacktrace"
            /\ UNCHANGED ret
       ELSE /\ payloads' = << >>
            /\ log' = Append(log, "rtt_err")
            /\ ret' = "Err"
            /\ rpc' = "done"
            /\ UNCHANGED had_rtt_data
    /\ UNCHANGED << always_print_stacktrace, rtta, exit, handler, core,
                    core_status, slept, manually_halted, halt_calls,
                    stacktraces, terminated >>

\* if poll_stacktrace(core, path)? { return Ok(false); }
\* ok: core.status() succeeded; rendered: print_stacktrace returned Ok.
poll_stacktrace(ok, rendered) ==
    /\ RunAt("poll_stacktrace")
    /\ IF ~ ok
       THEN /\ log' = Append(log, "status_err")
            /\ ret' = "Err"
            /\ rpc' = "done"
            /\ UNCHANGED << core_status, stacktraces >>
       ELSE /\ core_status' = core
            /\ IF is_halted(core)
               THEN /\ stacktraces' = stacktraces + 1
                    /\ log' = log \o << "status", "stacktrace" >>
                    /\ ret' = IF rendered THEN halted_return ELSE "Err"
                    /\ rpc' = "done"
               ELSE /\ log' = Append(log, "status")
                    /\ rpc' = "sleep"
                    /\ UNCHANGED << stacktraces, ret >>
    /\ UNCHANGED << always_print_stacktrace, rtta, exit, handler, core,
                    payloads, had_rtt_data, slept, manually_halted,
                    halt_calls, terminated >>

\* if had_rtt_data { sleep(1 ms) } else { sleep(100 ms) }
sleep ==
    /\ RunAt("sleep")
    /\ slept' = sleep_millis(had_rtt_data)
    /\ log' = Append(log, "sleep")
    /\ rpc' = "cond"
    /\ UNCHANGED << always_print_stacktrace, rtta, exit, handler, core,
                    payloads, had_rtt_data, core_status, manually_halted,
                    halt_calls, stacktraces, ret, terminated >>

\* let manually_halted = exit.load(Ordering::Relaxed); if manually_halted {
load_manually_halted ==
    /\ RunAt("load")
    /\ manually_halted' = exit
    /\ rpc' = IF exit THEN "halt" ELSE "unregister"
    /\ UNCHANGED << always_print_stacktrace, rtta, exit, handler, core,
                    payloads, had_rtt_data, core_status, slept, log,
                    halt_calls, stacktraces, ret, terminated >>

\* core.halt(Duration::from_secs(1))?;
halt(ok) ==
    /\ RunAt("halt")
    /\ halt_calls' = Append(halt_calls, HaltTimeoutSecs)
    /\ IF ok
       THEN /\ core' = "Halted"
            /\ log' = Append(log, "halt")
            /\ rpc' = IF always_print_stacktrace THEN "stacktrace" ELSE "unregister"
            /\ UNCHANGED ret
       ELSE /\ log' = Append(log, "halt_err")
            /\ ret' = "Err"
            /\ rpc' = "done"
            /\ UNCHANGED core
    /\ UNCHANGED << always_print_stacktrace, rtta, exit, handler, payloads,
                    had_rtt_data, core_status, slept, manually_halted,
                    stacktraces, terminated >>

\* if always_print_stacktrace { poll_stacktrace(core, path)?; }
poll_stacktrace_after_halt(ok, rendered) ==
    /\ RunAt("stacktrace")
    /\ IF ~ ok
       THEN /\ log' = Append(log, "status_err")
            /\ ret' = "Err"
            /\ rpc' = "done"
            /\ UNCHANGED << core_status, stacktraces >>
       ELSE /\ core_status' = core
            /\ IF is_halted(core)
               THEN /\ stacktraces' = stacktraces + 1
                    /\ log' = log \o << "status", "stacktrace" >>
                    /\ ret' = IF rendered THEN ret ELSE "Err"
                    /\ rpc' = IF rendered THEN "unregister" ELSE "done"
               ELSE /\ log' = Append(log, "status")
                    /\ rpc' = "unregister"
                    /\ UNCHANGED << stacktraces, ret >>
    /\ UNCHANGED << always_print_stacktrace, rtta, exit, handler, core,
                    payloads, had_rtt_data, slept, manually_halted,
                    halt_calls, terminated >>

\* signal_hook::low_level::unregister(sig_id);
unregister ==
    /\ RunAt("unregister")
    /\ handler' = "none"
    /\ log' = Append(log, "unregister")
    /\ rpc' = "register_default"
    /\ UNCHANGED << always_print_stacktrace, rtta, exit, core, payloads,
                    had_rtt_data, core_status, slept, manually_halted,
                    halt_calls, stacktraces, ret, terminated >>

\* Faulty variant: run_loop returns without restoring the default action.
return_without_default ==
    /\ RunAt("register_default")
    /\ log' = Append(log, "register_conditional_default")
    /\ ret' = IF manually_halted THEN "true" ELSE "false"
    /\ rpc' = "done"
    /\ UNCHANGED << always_print_stacktrace, rtta, exit, handler, core,
                    payloads, had_rtt_data, core_status, slept,
                    manually_halted, halt_calls, stacktraces, terminated >>

\* signal_hook::flag::register_conditional_default(SIGINT, exit)?;
\* Ok(manually_halted)
register_conditional_default ==
    /\ RunAt("register_default")
    /\ handler' = "conditional_default"
    /\ log' = Append(log, "register_conditional_default")
    /\ ret' = IF manually_halted THEN "true" ELSE "false"
    /\ rpc' = "done"
    /\ UNCHANGED << always_print_stacktrace, rtta, exit, core, payloads,
                    had_rtt_data, core_status, slept, manually_halted,
                    halt_calls, stacktraces, terminated >>

\* A SIGINT is delivered to the process.  The flag handler raises exit; the
\* conditional default runs the default action (the process ends) when exit
\* is raised; with every action unregistered the signal does nothing.
sigint ==
    /\ rpc # "off"
    /\ ~ terminated
    /\ exit' = IF handler = "flag" THEN TRUE ELSE exit
    /\ terminated' = IF handler = "os_default" THEN TRUE
                     ELSE IF handler = "conditional_default" THEN exit
                     ELSE FALSE
    /\ UNCHANGED << fvars, rpc, always_print_stacktrace, rtta, handler, core,
                    payloads, had_rtt_data, core_status, slept,
                    manually_halted, log, halt_calls, stacktraces, ret >>

\* The firmware halts on its own (an exception caught by vector catch, a
\* breakpoint).
target_halts ==
    /\ rpc # "off"
    /\ ~ terminated
    /\ core = "Running"
    /\ core' = "Halted"
    /\ UNCHANGED << fvars, rpc, always_print_stacktrace, rtta, exit, handler,
                    payloads, had_rtt_data, core_status, slept,
                    manually_halted, log, halt_calls, stacktraces, ret,
                    terminated >>

NextRun ==
    \/ \E a \in BOOLEAN : attach_to_rtt(a)
    \/ register
    \/ loop_condition
    \/ \E ok \in BOOLEAN, d \in Payloads : poll_rtt(ok, d)
    \/ \E ok \in BOOLEAN, rendered \in BOOLEAN : poll_stacktrace(ok, rendered)
    \/ sleep
    \/ load_manually_halted
    \/ \E ok \in BOOLEAN : halt(ok)
    \/ \E ok \in BOOLEAN, rendered \in BOOLEAN : poll_stacktrace_after_halt(ok, rendered)
    \/ unregister
    \/ register_conditional_default
    \/ sigint
    \/ target_halts

SpecRun == InitRun /\ [][NextRun]_vars

(* ================= properties of the supervision loop ================= *)
\* s is an initial segment of t.
IsPrefix(s, t) == Len(s) <= Len(t) /\ \A i \in 1..Len(s) : s[i] = t[i]
\* The pacing step of the current iteration has just been taken.
Paced == rpc = "cond" /\ log # << >> /\ log[Len(log)] = "sleep"
\* run_loop left the loop from the status poll that found the core halted.
LeftByStatusPoll ==
    rpc = "done" /\ log = << "rtt", "status", "stacktrace" >> /\ core_status = "Halted"
\* What run_loop does after a user interrupt, in order.
AfterInterrupt ==
    IF always_print_stacktrace
    THEN << "halt", "status", "stacktrace", "unregister", "register_conditional_default" >>
    ELSE << "halt", "unregister", "register_conditional_default" >>

\* C13: after the pacing step of an iteration the interval slept is 1 ms
\* exactly when RTT is attached and this iteration's poll delivered a
\* non-empty payload on some channel, and 100 ms otherwise.
C13_AdaptiveSleep ==
    Paced =>
        /\ slept = FastPollMillis <=>
               (rtta /\ \E i \in 1..Len(payloads) : payloads[i] # "")
        /\ slept = SlowPollMillis <=>
               (~ rtta \/ \A i \in 1..Len(payloads) : payloads[i] = "")
\* An iteration whose first channel alone carried data has slept 1 ms.
C13_Witness ==
    Paced /\ payloads = << "x", "" >> /\ slept = FastPollMillis

\* C14: run_loop returns false only from the status poll that found the
\* core halted, and then halt was never called; it returns true only after
\* the loop condition saw the exit flag, and then halt was called exactly
\* once, with a timeout of 1 s; the two ways out return nothing else but
\* an error.
C14_ReturnValue ==
    /\ ret = "false" =>
           LeftByStatusPoll /\ ~ manually_halted /\ halt_calls = << >>
    /\ ret = "true" =>
           /\ manually_halted /\ exit /\ ~ LeftByStatusPoll
           /\ halt_calls = << HaltTimeoutSecs >>
    /\ LeftByStatusPoll => ret \in {"false", "Err"} /\ halt_calls = << >>
    /\ (rpc = "done" /\ manually_halted) => ret \in {"true", "Err"}
    /\ Len(halt_calls) <= 1
\* run_loop has returned true after the exit flag was seen and the core
\* was halted once.
C14_Witness ==
    rpc = "done" /\ ret = "true" /\ halt_calls = << HaltTimeoutSecs >>

\* C15, in every state: after the loop was left by the exit flag the steps
\* taken are, in order, halt, the stack trace when always-print is
\* configured, unregister, restore of the default action; once run_loop has
\* returned true the conditional default action is installed and armed.
C15_State ==
    /\ (manually_halted /\ ret # "Err") => IsPrefix(log, AfterInterrupt)
    /\ (rpc = "done" /\ ret = "true") =>
           /\ log = AfterInterrupt
           /\ handler = "conditional_default"
           /\ exit
           /\ core = "Halted"
           /\ stacktraces = IF always_print_stacktrace THEN 1 ELSE 0
\* C15, in every step: a SIGINT delivered after run_loop returned true
\* ends the process.
C15_Step ==
    (rpc = "done" /\ ret = "true" /\ sigint) => terminated'
\* C15: on exit by signal run_loop halts the core, renders the stack trace
\* only when always-print is configured, then unregisters its flag handler
\* and restores the default action, so that a second SIGINT after the
\* return terminates the process.
C15_ExitBySignal == [] C15_State /\ [][C15_Step]_vars
\* A second SIGINT has ended the process after run_loop returned true with
\* the stack trace printed.
C15_Witness ==
    /\ terminated /\ rpc = "done" /\ ret = "true"
    /\ always_print_stacktrace /\ log = AfterInterrupt

\* C19: inside the loop the status poll comes right after the RTT poll of
\* the same iteration; a stack trace is rendered by the loop only as the
\* last step, after a status poll that found the core halted, once, with no
\* sleep and no RTT poll after it; while the status read is not Halted the
\* loop has rendered nothing.
C19_PollOrder ==
    ~ manually_halted =>
        /\ \A i \in 1..Len(log) :
               /\ log[i] \in {"status", "status_err"} => (i = 2 /\ log[1] = "rtt")
               /\ log[i] = "stacktrace" =>
                      /\ i = 3 /\ i = Len(log) /\ log[2] = "status"
                      /\ rpc = "done" /\ core_status = "Halted"
               /\ log[i] = "sleep" => (i = 3 /\ log[2] = "status")
        /\ stacktraces = IF LeftByStatusPoll THEN 1 ELSE 0
        /\ core_status # "Halted" => stacktraces = 0
        /\ rpc = "sleep" => core_status # "Halted"
\* The loop was left by a halted status poll after RTT data was printed.
C19_Witness ==
    /\ LeftByStatusPoll /\ stacktraces = 1 /\ ret = "false"
    /\ payloads = << "x", "x" >> /\ slept = FastPollMillis

\* How often event ev was logged since the loop condition was last read.
Count(ev) == Cardinality({i \in 1..Len(log) : log[i] = ev})
\* run_loop is inside the loop body or at its condition.
InLoop == rpc \in {"cond", "poll_rtt", "poll_stacktrace", "sleep"}

\* C21, in every state: between two reads of the loop condition there is at
\* most one RTT poll, one status poll and one sleep, so no more than these
\* can follow a raise of the flag before the condition is read again; a
\* return of false has no halt call behind it, raised flag or not.
C21_State ==
    /\ InLoop =>
           /\ Count("rtt") <= 1 /\ Count("status") <= 1 /\ Count("sleep") <= 1
           /\ halt_calls = << >>
    /\ ret = "false" => halt_calls = << >>
\* C21, in every step: the condition read with the flag raised leaves the
\* loop for the halt; the body never looks at the flag, a status poll that
\* finds the core halted returns false with the flag raised; the flag
\* changes only by being raised by the handler, with run_loop standing
\* still.
C21_Step ==
    /\ (exit /\ rpc = "cond" /\ rpc' # rpc) => rpc' = "load"
    /\ (exit /\ rpc = "load" /\ rpc' # rpc) => (rpc' = "halt" /\ manually_halted')
    /\ (exit /\ rpc \in {"poll_rtt", "poll_stacktrace", "sleep"}) =>
           rpc' \in {rpc, "poll_stacktrace", "sleep", "cond", "done"}
    /\ (exit /\ rpc = "poll_stacktrace" /\ rpc' = "done" /\ core_status' = "Halted"
             /\ stacktraces' # stacktraces) =>
           (ret' \in {"false", "Err"} /\ halt_calls' = << >>)
    /\ exit' # exit =>
           /\ exit' /\ handler = "flag"
           /\ rpc' = rpc /\ log' = log /\ halt_calls' = halt_calls /\ ret' = ret
\* C21: the raised exit flag is observed only at the loop condition: after
\* the raise at most one more RTT poll, status poll and sleep happen before
\* run_loop calls halt or returns; a status poll that finds the core halted
\* returns false without a halt call although the flag is raised; the loop
\* never writes the flag.
C21_FlagObservedAtCondition == [] C21_State /\ [][C21_Step]_vars
\* run_loop returned false from a halted status poll with the flag raised.
C21_Witness ==
    /\ exit /\ handler = "flag" /\ LeftByStatusPoll
    /\ ret = "false" /\ halt_calls = << >>
\* The flag is raised and the iteration it fell into has run to its sleep;
\* the condition has not been read again yet.
C21_WitnessFullIteration ==
    /\ exit /\ rpc = "cond" /\ log = << "rtt", "status", "sleep" >>
    /\ ~ manually_halted

=============================================================================
